---- MODULE Spec2Model ----
(***************************************************************************)
(* A model of webhdfs.py: the WebHDFS client (class WebHDFS), its scoped   *)
(* control-plane connection (_NameNodeHTTPClient) and the redirect parser  *)
(* parse_url.  Strings are sequences of one-character strings, so that     *)
(* the regular expression, strip('/'), endswith, int() and str() are       *)
(* computed character by character, as the code computes them.             *)
(***************************************************************************)
EXTENDS Integers, Sequences, FiniteSets, TLC

VARIABLES client, callers, th, target_file

vars == <<client, callers, th, target_file>>

(***************************************************************************)
(* Bounds of the model.                                                    *)
(***************************************************************************)
MaxPortDigits == 6
MaxReplication == 10
MaxLength == 2

(***************************************************************************)
(* Characters and strings.                                                 *)
(***************************************************************************)
Digits == <<"0", "1", "2", "3", "4", "5", "6", "7", "8", "9">>

DigitChars == {Digits[i] : i \in 1..10}

Letters ==
  {"a", "b", "c", "d", "e", "f", "g", "h", "i", "j", "k", "l", "m", "n", "o",
   "p", "q", "r", "s", "t", "u", "v", "w", "x", "y", "z",
   "A", "B", "C", "D", "E", "F", "G", "H", "I", "J", "K", "L", "M", "N", "O",
   "P", "Q", "R", "S", "T", "U", "V", "W", "X", "Y", "Z"}

\* s.find(c): the 1-based index of the first c in s, 0 when there is none
Find(s, c) ==
  IF \E i \in 1..Len(s) : s[i] = c
    THEN CHOOSE i \in 1..Len(s) : s[i] = c /\ \A j \in 1..(i - 1) : s[j] # c
    ELSE 0

\* the index of the first character of s that is in set cs, 0 when none is
FindAny(s, cs) ==
  IF \E i \in 1..Len(s) : s[i] \in cs
    THEN CHOOSE i \in 1..Len(s) : s[i] \in cs /\ \A j \in 1..(i - 1) : s[j] \notin cs
    ELSE 0

\* s[i:] with a 1-based i
From(s, i) == SubSeq(s, i, Len(s))

\* s.endswith(suffix)
EndsWith(s, suffix) ==
  /\ Len(s) >= Len(suffix)
  /\ SubSeq(s, Len(s) - Len(suffix) + 1, Len(s)) = suffix

\* s.strip('/')
StripSlashes(s) ==
  IF \A i \in 1..Len(s) : s[i] = "/"
    THEN <<>>
    ELSE LET a == CHOOSE i \in 1..Len(s) :
                     s[i] # "/" /\ \A j \in 1..(i - 1) : s[j] = "/"
             b == CHOOSE i \in 1..Len(s) :
                     s[i] # "/" /\ \A j \in (i + 1)..Len(s) : s[j] = "/"
         IN SubSeq(s, a, b)

\* int(s) for a string of decimal digits
RECURSIVE ParseInt(_)
ParseInt(s) ==
  IF s = <<>> THEN 0
  ELSE 10 * ParseInt(SubSeq(s, 1, Len(s) - 1))
       + ((CHOOSE i \in 1..10 : Digits[i] = s[Len(s)]) - 1)

\* str(n) for a natural number n
RECURSIVE Str(_)
Str(n) == IF n < 10 THEN <<Digits[n + 1]>> ELSE Str(n \div 10) \o <<Digits[(n % 10) + 1]>>

(***************************************************************************)
(* Module constants.                                                       *)
(***************************************************************************)
WEBHDFS_CONTEXT_ROOT == <<"/", "w", "e", "b", "h", "d", "f", "s", "/", "v", "1">>

(***************************************************************************)
(* String literals of the program and of the environment, spelled out.     *)
(***************************************************************************)
\* "/d/a"
PATH_A == <<"/", "d", "/", "a">>

\* "/d/b.gz"
PATH_GZ == <<"/", "d", "/", "b", ".", "g", "z">>

\* "dn"
HOST_DN == <<"d", "n">>

\* "d-1.x"
HOST_D1X == <<"d", "-", "1", ".", "x">>

\* " dn"
HOST_SPACE_DN == <<" ", "d", "n">>

\* "d n"
HOST_D_SPACE_N == <<"d", " ", "n">>

\* "/webhdfs/v1/d/a"
LOCPATH_A == <<"/", "w", "e", "b", "h", "d", "f", "s", "/", "v", "1", "/", "d", "/", "a">>

\* "op=X&n=%2F"
LOCQUERY_A == <<"o", "p", "=", "X", "&", "n", "=", "%", "2", "F">>

\* "/w/b.gz/"
LOCPATH_B == <<"/", "w", "/", "b", ".", "g", "z", "/">>

\* "op=Y"
LOCQUERY_B == <<"o", "p", "=", "Y">>

\* "http://"
HTTP_SCHEME == <<"h", "t", "t", "p", ":", "/", "/">>

\* "nn"
NAMENODE_HOST == <<"n", "n">>

\* "hue"
USERNAME == <<"h", "u", "e">>

\* "?op=MKDIRS"
OP_MKDIRS == <<"?", "o", "p", "=", "M", "K", "D", "I", "R", "S">>

\* "?op=DELETE&recursive=true"
OP_DELETE == <<"?", "o", "p", "=", "D", "E", "L", "E", "T", "E", "&", "r", "e", "c", "u", "r", "s", "i", "v", "e", "=", "t", "r", "u", "e">>

\* "?op=CREATE&overwrite="
OP_CREATE == <<"?", "o", "p", "=", "C", "R", "E", "A", "T", "E", "&", "o", "v", "e", "r", "w", "r", "i", "t", "e", "=">>

\* "true"
STR_TRUE == <<"t", "r", "u", "e">>

\* "false"
STR_FALSE == <<"f", "a", "l", "s", "e">>

\* "?op=OPEN&overwrite=true"
OP_OPEN_OVERWRITE == <<"?", "o", "p", "=", "O", "P", "E", "N", "&", "o", "v", "e", "r", "w", "r", "i", "t", "e", "=", "t", "r", "u", "e">>

\* "?op=OPEN&offset="
OP_OPEN_OFFSET == <<"?", "o", "p", "=", "O", "P", "E", "N", "&", "o", "f", "f", "s", "e", "t", "=">>

\* "&length="
AMP_LENGTH == <<"&", "l", "e", "n", "g", "t", "h", "=">>

\* "&buffersize="
AMP_BUFFERSIZE == <<"&", "b", "u", "f", "f", "e", "r", "s", "i", "z", "e", "=">>

\* "?op=LISTSTATUS"
OP_LISTSTATUS == <<"?", "o", "p", "=", "L", "I", "S", "T", "S", "T", "A", "T", "U", "S">>

\* "?op=GETFILESTATUS"
OP_GETFILESTATUS == <<"?", "o", "p", "=", "G", "E", "T", "F", "I", "L", "E", "S", "T", "A", "T", "U", "S">>

\* "&user.name="
AMP_USER_NAME == <<"&", "u", "s", "e", "r", ".", "n", "a", "m", "e", "=">>

\* "&replication="
AMP_REPLICATION == <<"&", "r", "e", "p", "l", "i", "c", "a", "t", "i", "o", "n", "=">>

\* ".gz"
GZ_SUFFIX == <<".", "g", "z">>

DEFAULT_BUFFERSIZE == 10000

GZ_MAGIC == 31

(***************************************************************************)
(* urlparse(url), as far as parse_url uses it: the network location, the   *)
(* path and the query of scheme://netloc/path?query#fragment.  The steps   *)
(* of urlsplit follow one another: the scheme up to the first ':', the     *)
(* network location after '//' up to the first of '/?#', the fragment      *)
(* after '#', the query after '?'.                                         *)
(***************************************************************************)
SchemeChars == Letters \cup DigitChars \cup {"+", "-", "."}

\* s cut before position i; all of s when i = 0
Before(s, i) == IF i = 0 THEN s ELSE SubSeq(s, 1, i - 1)

\* s from position i on; nothing when i = 0
After(s, i) == IF i = 0 THEN <<>> ELSE From(s, i)

urlsplit_query(netloc, s, q) ==
  [netloc |-> netloc,
   path   |-> Before(s, q),
   query  |-> After(s, IF q = 0 THEN 0 ELSE q + 1)]

urlsplit_fragment(netloc, s, f) ==
  urlsplit_query(netloc, Before(s, f), Find(Before(s, f), "?"))

urlsplit_tail(netloc, s) == urlsplit_fragment(netloc, s, Find(s, "#"))

urlsplit_netloc_end(s, d) == urlsplit_tail(Before(s, d), After(s, d))

urlsplit_netloc(rest) ==
  IF Len(rest) >= 2 /\ rest[1] = "/" /\ rest[2] = "/"
    THEN urlsplit_netloc_end(From(rest, 3), FindAny(From(rest, 3), {"/", "?", "#"}))
    ELSE urlsplit_tail(<<>>, rest)

\* url[:i] is a scheme when it is made of scheme characters and what
\* follows the ':' is not a port number
urlsplit_scheme(url, i) ==
  urlsplit_netloc(
    IF /\ i > 1
       /\ \A j \in 1..(i - 1) : url[j] \in SchemeChars
       /\ \/ i = Len(url)
          \/ \E j \in (i + 1)..Len(url) : url[j] \notin DigitChars
      THEN From(url, i + 1)
      ELSE url)

urlparse(url) == urlsplit_scheme(url, Find(url, ":"))

(***************************************************************************)
(* re.match('([a-zA-Z0-9\-\.]+):?([0-9]{2,5})?', netloc).  re.match anchors *)
(* at the start of the string only.  Group 1 is greedy and everything      *)
(* after it is optional, so it takes the longest prefix of host            *)
(* characters; then an optional ':'; then group 2, which takes up to five  *)
(* digits when at least two follow and does not take part otherwise.       *)
(***************************************************************************)
HostChars == Letters \cup DigitChars \cup {"-", "."}

\* the length of the longest prefix of s made of characters of cs
PrefixLen(s, cs) ==
  CHOOSE n \in 0..Len(s) :
    /\ \A j \in 1..n : s[j] \in cs
    /\ n < Len(s) => s[n + 1] \notin cs

Min(a, b) == IF a < b THEN a ELSE b

\* group 2, at the digits that follow the optional ':'
re_match_port(h, host, digits, nd) ==
  [matched |-> h > 0,
   host    |-> host,
   hasPort |-> nd >= 2,
   port    |-> IF nd >= 2 THEN SubSeq(digits, 1, Min(nd, 5)) ELSE <<>>]

\* the optional ':' after group 1
re_match_colon(h, host, rest) ==
  re_match_port(h, host, rest, PrefixLen(rest, DigitChars))

re_match_host(netloc, h) ==
  re_match_colon(h, SubSeq(netloc, 1, h),
                 IF h < Len(netloc) /\ netloc[h + 1] = ":"
                   THEN From(netloc, h + 2) ELSE From(netloc, h + 1))

re_match(netloc) == re_match_host(netloc, PrefixLen(netloc, HostChars))

(***************************************************************************)
(* parse_url: the outcome is a return value or a raised exception.  When   *)
(* group 2 did not take part, port is None and int(None) raises TypeError. *)
(***************************************************************************)
NoError == "none"

InvalidHostPort == "Exception: Invalid host and/or port"

parse_url_result(u, match) ==
  [raised |-> IF ~match.matched THEN InvalidHostPort
              ELSE IF ~match.hasPort THEN "TypeError"
              ELSE NoError,
   host   |-> match.host,
   port   |-> ParseInt(match.port),
   path   |-> StripSlashes(u.path),
   query  |-> u.query]

parse_url_match(u) == parse_url_result(u, re_match(u.netloc))

parse_url(url) == parse_url_match(urlparse(url))

(***************************************************************************)
(* The environment: paths, local files, and what the NameNode and the      *)
(* DataNodes may answer.                                                   *)
(***************************************************************************)
Threads == {"t1", "t2"}

Paths == {PATH_A, PATH_GZ}

Replications == {1, MaxReplication}

Lengths == 0..MaxLength

\* the local target file of copytolocal before any call
OldContent == <<7>>

\* network locations of a Location header: a host part, then an optional
\* ':', then 0..MaxPortDigits digits, then an optional stray character
PortDigits(k) == [i \in 1..k |-> Digits[((4 + i) % 10) + 1]]

HostParts == {HOST_DN, HOST_D1X, HOST_SPACE_DN, HOST_D_SPACE_N}

Netlocs ==
  {h \o sep \o PortDigits(k) \o suf :
     h \in HostParts, sep \in {<<>>, <<":">>}, k \in 0..MaxPortDigits,
     suf \in {<<>>, <<"!">>}}

LocationTails ==
  {[path |-> LOCPATH_A, query |-> LOCQUERY_A],
   [path |-> LOCPATH_B, query |-> LOCQUERY_B]}

\* a Location header value, kept with the parts it was written from
Location(netloc, tail) ==
  [url    |-> HTTP_SCHEME \o netloc \o tail.path \o <<"?">> \o tail.query,
   netloc |-> netloc,
   path   |-> tail.path,
   query  |-> tail.query]

NoLocation == [url |-> <<>>, netloc |-> <<>>, path |-> <<>>, query |-> <<>>]

Locations == {Location(n, tl) : n \in Netlocs, tl \in LocationTails}

\* response bodies as json.loads sees them: a document or no JSON at all
NotJson == [wellformed |-> FALSE, doc |-> [empty |-> TRUE]]

ENTRY_FILE == [pathSuffix |-> "a.txt", length |-> 10, type |-> "FILE", owner |-> "hdfs"]

ENTRY_DIR == [pathSuffix |-> "sub", length |-> 0, type |-> "DIRECTORY", owner |-> "hdfs"]

JsonBodies ==
  {NotJson,
   [wellformed |-> TRUE, doc |-> [boolean |-> TRUE]],
   [wellformed |-> TRUE, doc |-> [RemoteException |-> "FileNotFoundException"]],
   [wellformed |-> TRUE, doc |-> [FileStatus |-> ENTRY_DIR]],
   [wellformed |-> TRUE, doc |-> [FileStatuses |-> [FileStatus |-> <<ENTRY_DIR, ENTRY_FILE>>]]],
   [wellformed |-> TRUE, doc |-> [FileStatuses |-> [FileStatus |-> <<ENTRY_FILE, ENTRY_DIR, ENTRY_FILE>>]]]}

\* response bodies as bytes
ByteBodies == {<<>>, <<GZ_MAGIC, 3, 5>>, <<GZ_MAGIC, 1, 4, 2, 6>>, <<4, 5, 6>>}

NoResponse ==
  [received |-> FALSE, status |-> 0, has_length |-> FALSE, other_headers |-> FALSE,
   has_location |-> FALSE, location |-> NoLocation, json |-> NotJson, bytes |-> <<>>]

\* what the NameNode may answer to a metadata operation
MetadataResponses ==
  {[received |-> TRUE, status |-> st, has_length |-> TRUE, other_headers |-> TRUE,
    has_location |-> FALSE, location |-> NoLocation, json |-> j, bytes |-> <<>>] :
     st \in {200, 404}, j \in JsonBodies}

\* what the NameNode may answer to CREATE and OPEN: with or without a body
\* length, with no header at all, with headers but no Location, or with a
\* Location
RedirectResponses ==
  {[received |-> TRUE, status |-> st, has_length |-> hl, other_headers |-> oh,
    has_location |-> FALSE, location |-> NoLocation, json |-> NotJson, bytes |-> <<>>] :
     st \in {307, 404}, hl \in BOOLEAN, oh \in BOOLEAN}
  \cup
  {[received |-> TRUE, status |-> 307, has_length |-> hl, other_headers |-> TRUE,
    has_location |-> TRUE, location |-> loc, json |-> NotJson, bytes |-> <<>>] :
     hl \in BOOLEAN, loc \in Locations}

\* what a DataNode may answer
DataResponses ==
  {[received |-> TRUE, status |-> st, has_length |-> TRUE, other_headers |-> TRUE,
    has_location |-> FALSE, location |-> NoLocation, json |-> j, bytes |-> b] :
     st \in {200, 500}, j \in {NotJson, [wellformed |-> TRUE, doc |-> [boolean |-> TRUE]]},
     b \in ByteBodies}

(***************************************************************************)
(* Two calls in flight at once are explored over a narrower environment:   *)
(* one replication, one length, and two answers of each kind.              *)
(***************************************************************************)
Concurrent == Cardinality(callers) > 1

Few(all, few) == IF Concurrent THEN few ELSE all

FewMetadataResponses ==
  {r \in MetadataResponses :
     \/ r.status = 200 /\ r.json.wellformed /\ "FileStatuses" \in DOMAIN r.json.doc
                       /\ Len(r.json.doc.FileStatuses.FileStatus) = 2
     \/ r.status = 404 /\ r.json.wellformed /\ "RemoteException" \in DOMAIN r.json.doc}

FewRedirectResponses ==
  {r \in RedirectResponses :
     \/ r.status = 404 /\ ~r.has_length /\ ~r.other_headers /\ ~r.has_location
     \/ r.has_location /\ r.has_length
          /\ r.location = Location(HOST_DN \o <<":">> \o PortDigits(2),
                                   [path |-> LOCPATH_A, query |-> LOCQUERY_A])}

FewDataResponses ==
  {r \in DataResponses :
     \/ r.status = 200 /\ r.json = NotJson /\ r.bytes = <<4, 5, 6>>
     \/ r.status = 500 /\ r.json = NotJson /\ r.bytes = <<>>}

(***************************************************************************)
(* httplib.HTTPConnection.  The constructor opens no socket; request()     *)
(* connects and sends, and may fail before or after the connect.           *)
(***************************************************************************)
NoConnection == [state |-> "none", host |-> <<>>, port |-> 0, requests |-> <<>>]

HTTPConnection(host, port) ==
  [state |-> "new", host |-> host, port |-> port, requests |-> <<>>]

RequestOutcomes == {"ok", "connect_failed", "send_failed"}

\* a request() that sends again after a failed send
request_resend(conn, method, target, outcome) ==
  IF outcome = "connect_failed" THEN conn
  ELSE [conn EXCEPT !.state = "open",
                    !.requests = IF outcome = "send_failed"
                                   THEN <<[method |-> method, target |-> target],
                                          [method |-> method, target |-> target]>>
                                   ELSE Append(@, [method |-> method, target |-> target])]

request(conn, method, target, outcome) ==
  IF outcome = "connect_failed" THEN conn
  ELSE IF outcome = "send_failed" THEN [conn EXCEPT !.state = "open"]
  ELSE [conn EXCEPT !.state = "open",
                    !.requests = Append(@, [method |-> method, target |-> target])]

close(conn) == [conn EXCEPT !.state = "closed"]

\* the call constructs a connection and binds it to one of its variables
Construct(c, variable, conn) == [c EXCEPT ![variable] = conn, !.opened = @ + 1]

(***************************************************************************)
(* The state of one call of a public method: where it is, its arguments    *)
(* and local variables, its connections, and how it ended.                 *)
(***************************************************************************)
NoResult == [kind |-> "none"]

NoRedirect == [host |-> <<>>, port |-> 0, path |-> <<>>]

IdleCall ==
  [pc |-> "idle", op |-> "none", http_method |-> "none",
   path |-> <<>>, replication |-> 0, overwrite |-> FALSE,
   offset |-> 0, length |-> 0, buffersize |-> 0,
   url_path |-> <<>>, httpclient |-> NoConnection, response |-> NoResponse,
   redirect |-> NoRedirect, dataclient |-> NoConnection,
   redirect_response |-> NoResponse, result |-> NoResult,
   \* history: what the NameNode answered, what the DataNode answered, the
   \* connections constructed so far, and the state of the connection at
   \* each response.read()
   namenode_response |-> NoResponse, datanode_response |-> NoResponse,
   opened |-> 0, body_reads |-> {}]

Set(t, c) == th' = [th EXCEPT ![t] = c]

Return(c, value) == [c EXCEPT !.pc = "done", !.result = value]

Raise(c, exception) ==
  [c EXCEPT !.pc = "done", !.result = [kind |-> "raised", exception |-> exception]]

\* _NameNodeHTTPClient.__exit__ of the control-plane connection
NameNodeHTTPClient_exit(c) == [c EXCEPT !.httpclient = close(@)]

\* response.read() of the response that arrived on connection conn
Read(c, which, conn) ==
  [c EXCEPT !.body_reads = @ \cup {[of |-> which, connection |-> conn.state]}]

json_loads(body) ==
  IF body.wellformed THEN [kind |-> "json", doc |-> body.doc]
  ELSE [kind |-> "raised", exception |-> "ValueError"]

Init ==
  /\ client = [namenode_host |-> NAMENODE_HOST, namenode_port |-> 50070,
               username |-> USERNAME]
  /\ callers = {"t1"}
  /\ th = [t \in Threads |-> IdleCall]
  /\ target_file = OldContent

(***************************************************************************)
(* The public methods: each builds its url_path and then constructs the    *)
(* control-plane _NameNodeHTTPClient.                                      *)
(***************************************************************************)
Begin(t, op, method, path, url_path) ==
  [IdleCall EXCEPT !.pc = "ctl_init", !.op = op, !.http_method = method,
                   !.path = path, !.url_path = url_path]

mkdir(t) ==
  /\ t \in callers /\ th[t].pc = "idle"
  /\ \E path \in Paths :
       Set(t, Begin(t, "mkdir", "PUT", path,
                    WEBHDFS_CONTEXT_ROOT \o path \o OP_MKDIRS))
  /\ UNCHANGED <<client, callers, target_file>>

rmdir(t) ==
  /\ t \in callers /\ th[t].pc = "idle"
  /\ \E path \in Paths :
       Set(t, Begin(t, "rmdir", "DELETE", path,
                    WEBHDFS_CONTEXT_ROOT \o path \o OP_DELETE))
  /\ UNCHANGED <<client, callers, target_file>>

\* 'a' + 'b' if overwrite else 'c' is ('a' + 'b') if overwrite else 'c'
copyfromlocal_url_path(target_path, overwrite) ==
  IF overwrite
    THEN WEBHDFS_CONTEXT_ROOT \o target_path \o OP_CREATE \o STR_TRUE
    ELSE STR_FALSE

copyfromlocal(t) ==
  /\ t \in callers /\ th[t].pc = "idle"
  /\ \E target_path \in Paths, replication \in Few(Replications, {1}),
        overwrite \in Few(BOOLEAN, {TRUE}) :
       Set(t, [Begin(t, "copyfromlocal", "PUT", target_path,
                     copyfromlocal_url_path(target_path, overwrite))
                 EXCEPT !.replication = replication, !.overwrite = overwrite])
  /\ UNCHANGED <<client, callers, target_file>>

copytolocal(t) ==
  /\ t \in callers /\ th[t].pc = "idle"
  /\ \E source_path \in Paths :
       Set(t, Begin(t, "copytolocal", "GET", source_path,
                    WEBHDFS_CONTEXT_ROOT \o source_path \o OP_OPEN_OVERWRITE))
  /\ UNCHANGED <<client, callers, target_file>>

readfile_url_path(source_path, offset, length, buffersize) ==
  WEBHDFS_CONTEXT_ROOT \o source_path \o OP_OPEN_OFFSET \o Str(offset)
    \o AMP_LENGTH \o Str(length) \o AMP_BUFFERSIZE \o Str(buffersize)

readfile(t) ==
  /\ t \in callers /\ th[t].pc = "idle"
  /\ \E source_path \in Paths, length \in Few(Lengths, {1}) :
       Set(t, [Begin(t, "readfile", "GET", source_path,
                     readfile_url_path(source_path, 0, length, DEFAULT_BUFFERSIZE))
                 EXCEPT !.offset = 0, !.length = length,
                        !.buffersize = DEFAULT_BUFFERSIZE])
  /\ UNCHANGED <<client, callers, target_file>>

listdir(t) ==
  /\ t \in callers /\ th[t].pc = "idle"
  /\ \E path \in Paths :
       Set(t, Begin(t, "listdir", "GET", path,
                    WEBHDFS_CONTEXT_ROOT \o path \o OP_LISTSTATUS))
  /\ UNCHANGED <<client, callers, target_file>>

getfilestatus(t) ==
  /\ t \in callers /\ th[t].pc = "idle"
  /\ \E path \in Paths :
       Set(t, Begin(t, "getfilestatus", "GET", path,
                    WEBHDFS_CONTEXT_ROOT \o path \o OP_GETFILESTATUS))
  /\ UNCHANGED <<client, callers, target_file>>

(***************************************************************************)
(* _NameNodeHTTPClient.__init__ and __enter__ of the control-plane         *)
(* connection.  When either raises, the with statement is never entered    *)
(* and __exit__ does not run.                                              *)
(***************************************************************************)
NameNodeHTTPClient_target(url_path, hdfs_username) ==
  url_path \o AMP_USER_NAME \o hdfs_username

NameNodeHTTPClient_init(t) ==
  /\ th[t].pc = "ctl_init"
  /\ \E outcome \in RequestOutcomes :
       LET c == th[t]
           conn == request(HTTPConnection(client.namenode_host, client.namenode_port),
                           c.http_method,
                           NameNodeHTTPClient_target(c.url_path, client.username),
                           outcome)
           c1 == Construct(c, "httpclient", conn)
       IN Set(t, IF outcome = "ok" THEN [c1 EXCEPT !.pc = "ctl_enter"]
                 ELSE Raise(c1, "socket.error"))
  /\ UNCHANGED <<client, callers, target_file>>

ControlResponses(op) ==
  IF op \in {"copyfromlocal", "copytolocal", "readfile"}
    THEN Few(RedirectResponses, FewRedirectResponses)
    ELSE Few(MetadataResponses, FewMetadataResponses)

NameNodeHTTPClient_enter(t) ==
  /\ th[t].pc = "ctl_enter"
  /\ \/ \E r \in ControlResponses(th[t].op) :
          Set(t, [th[t] EXCEPT !.pc = "body", !.response = r,
                               !.namenode_response = r])
     \/ Set(t, Raise(th[t], "socket.error"))
  /\ UNCHANGED <<client, callers, target_file>>

(***************************************************************************)
(* The bodies of mkdir, rmdir, listdir and getfilestatus.                  *)
(***************************************************************************)
mkdir_body(t) ==
  /\ th[t].pc = "body" /\ th[t].op = "mkdir"
  /\ LET c == Read(th[t], "response", th[t].httpclient)
     IN Set(t, NameNodeHTTPClient_exit(Return(c, json_loads(c.response.json))))
  /\ UNCHANGED <<client, callers, target_file>>

rmdir_body(t) ==
  /\ th[t].pc = "body" /\ th[t].op = "rmdir"
  /\ LET c == Read(th[t], "response", th[t].httpclient)
     IN Set(t, NameNodeHTTPClient_exit(Return(c, json_loads(c.response.json))))
  /\ UNCHANGED <<client, callers, target_file>>

\* each triple put at the front of the list
listdir_files_reversed(statuses) ==
  [i \in 1..Len(statuses) |->
     <<statuses[Len(statuses) + 1 - i].pathSuffix,
       statuses[Len(statuses) + 1 - i].length,
       statuses[Len(statuses) + 1 - i].type>>]

\* the loop of listdir: one triple per entry, in order
listdir_files(statuses) ==
  [i \in 1..Len(statuses) |->
     <<statuses[i].pathSuffix, statuses[i].length, statuses[i].type>>]

listdir_body(t) ==
  /\ th[t].pc = "body" /\ th[t].op = "listdir"
  /\ LET c == Read(th[t], "response", th[t].httpclient)
         data_dict == json_loads(c.response.json)
     IN Set(t, NameNodeHTTPClient_exit(
                 IF data_dict.kind = "raised" THEN Return(c, data_dict)
                 ELSE IF "FileStatuses" \notin DOMAIN data_dict.doc
                   THEN Raise(c, "KeyError")
                 ELSE Return(c, [kind |-> "list",
                                 files |-> listdir_files(
                                   data_dict.doc.FileStatuses.FileStatus)])))
  /\ UNCHANGED <<client, callers, target_file>>

getfilestatus_body(t) ==
  /\ th[t].pc = "body" /\ th[t].op = "getfilestatus"
  /\ LET c == Read(th[t], "response", th[t].httpclient)
         data_dict == json_loads(c.response.json)
     IN Set(t, NameNodeHTTPClient_exit(
                 IF data_dict.kind = "raised" THEN Return(c, data_dict)
                 ELSE IF "FileStatus" \in DOMAIN data_dict.doc
                   THEN Return(c, [kind |-> "json", doc |-> data_dict.doc.FileStatus])
                 ELSE Return(c, [kind |-> "None"])))
  /\ UNCHANGED <<client, callers, target_file>>

(***************************************************************************)
(* Following the redirect: what copyfromlocal, copytolocal and readfile    *)
(* do with the Location of the control-plane response.  msg["location"]    *)
(* raises KeyError when the header is absent.  `suffix` is appended to the *)
(* query.  Any exception leaves the with block through __exit__.           *)
(***************************************************************************)
\* a redirect path that leaves the suffix out
redirect_path_bare(parsed, suffix) == parsed.path \o <<"?">> \o parsed.query

redirect_path(parsed, suffix) == parsed.path \o <<"?">> \o parsed.query \o suffix

Redirected(c, parsed, suffix, next_pc) ==
  IF ~c.response.has_location
    THEN NameNodeHTTPClient_exit(Raise(c, "KeyError"))
  ELSE IF parsed.raised # NoError
    THEN NameNodeHTTPClient_exit(Raise(c, parsed.raised))
  ELSE [c EXCEPT !.pc = next_pc,
                 !.redirect = [host |-> parsed.host, port |-> parsed.port,
                               path |-> redirect_path(parsed, suffix)]]

FollowRedirect(c, suffix, next_pc) ==
  Redirected(c, parse_url(c.response.location.url), suffix, next_pc)

\* `if response.length is not None and response.msg`: a message with no
\* header at all is false
\* `or` in the place of `and`
ExpectsRedirect_or(response) ==
  response.has_length \/ (response.other_headers \/ response.has_location)

ExpectsRedirect(response) ==
  response.has_length /\ (response.other_headers \/ response.has_location)

(***************************************************************************)
(* copyfromlocal, lines 83-100.                                            *)
(***************************************************************************)
copyfromlocal_redirect(t) ==
  /\ th[t].pc = "body" /\ th[t].op = "copyfromlocal"
  /\ LET c == FollowRedirect(th[t], AMP_REPLICATION \o Str(th[t].replication),
                             "data_request")
     IN Set(t, IF c.pc = "done" THEN c
               ELSE Construct(c, "dataclient",
                              HTTPConnection(c.redirect.host, c.redirect.port)))
  /\ UNCHANGED <<client, callers, target_file>>

\* open(source_path, "r").read() is evaluated before request() is called
copyfromlocal_put(t) ==
  /\ th[t].pc = "data_request" /\ th[t].op = "copyfromlocal"
  /\ \/ Set(t, NameNodeHTTPClient_exit(Raise(th[t], "IOError")))
     \/ \E outcome \in RequestOutcomes :
          LET c == [th[t] EXCEPT !.dataclient =
                                   request(@, "PUT", th[t].redirect.path, outcome)]
          IN Set(t, IF outcome = "ok" THEN [c EXCEPT !.pc = "data_response"]
                    ELSE NameNodeHTTPClient_exit(Raise(c, "socket.error")))
  /\ UNCHANGED <<client, callers, target_file>>

\* `response` is rebound to the DataNode's response
copyfromlocal_getresponse(t) ==
  /\ th[t].pc = "data_response" /\ th[t].op = "copyfromlocal"
  /\ \/ \E r \in Few(DataResponses, FewDataResponses) :
          r.bytes = <<>>
          /\ Set(t, [th[t] EXCEPT !.pc = "data_finish", !.response = r,
                                  !.datanode_response = r])
     \/ Set(t, NameNodeHTTPClient_exit(Raise(th[t], "socket.error")))
  /\ UNCHANGED <<client, callers, target_file>>

\* fileUploadClient.close() comes before response.read().  close() also
\* closes the response the connection still holds, and read() of a closed
\* response gives the empty string; only a response of a connection the
\* server closes (will_close) was detached by getresponse() and keeps
\* its body.
read_after_close(response, will_close) ==
  IF will_close THEN response.json ELSE NotJson

copyfromlocal_finish(t) ==
  /\ th[t].pc = "data_finish" /\ th[t].op = "copyfromlocal"
  /\ \E will_close \in BOOLEAN :
       LET c1 == [th[t] EXCEPT !.dataclient = close(@)]
           c2 == Read(c1, "response", c1.dataclient)
       IN Set(t, NameNodeHTTPClient_exit(
                   Return(c2, json_loads(read_after_close(c2.response, will_close)))))
  /\ UNCHANGED <<client, callers, target_file>>

(***************************************************************************)
(* copytolocal, lines 106-132.  open(target_path, "w") truncates the file; *)
(* it may fail, and so may the read of the body and the write after it.    *)
(***************************************************************************)
StatusOf(response) == [kind |-> "status", status |-> response.status]

copytolocal_branch(t) ==
  /\ th[t].pc = "body" /\ th[t].op = "copytolocal"
  /\ IF ExpectsRedirect(th[t].response)
       THEN /\ LET c == FollowRedirect(th[t], <<>>, "data_request")
               IN Set(t, IF c.pc = "done" THEN c
                         ELSE Construct(c, "dataclient",
                                HTTPConnection(c.redirect.host, c.redirect.port)))
            /\ UNCHANGED target_file
       ELSE \/ /\ target_file' = <<>>
               /\ Set(t, NameNodeHTTPClient_exit(
                           Return(th[t], StatusOf(th[t].response))))
            \/ /\ UNCHANGED target_file
               /\ Set(t, NameNodeHTTPClient_exit(Raise(th[t], "IOError")))
  /\ UNCHANGED <<client, callers>>

\* the target file opened for writing before the request is sent
copytolocal_get_opens_first(t) ==
  /\ th[t].pc = "data_request" /\ th[t].op = "copytolocal"
  /\ \E outcome \in RequestOutcomes :
       LET c == [th[t] EXCEPT !.dataclient =
                                request(@, "GET", th[t].redirect.path, outcome)]
       IN Set(t, IF outcome = "ok" THEN [c EXCEPT !.pc = "data_response"]
                 ELSE NameNodeHTTPClient_exit(Raise(c, "socket.error")))
  /\ target_file' = <<>>
  /\ UNCHANGED <<client, callers>>

copytolocal_get(t) ==
  /\ th[t].pc = "data_request" /\ th[t].op = "copytolocal"
  /\ \E outcome \in RequestOutcomes :
       LET c == [th[t] EXCEPT !.dataclient =
                                request(@, "GET", th[t].redirect.path, outcome)]
       IN Set(t, IF outcome = "ok" THEN [c EXCEPT !.pc = "data_response"]
                 ELSE NameNodeHTTPClient_exit(Raise(c, "socket.error")))
  /\ UNCHANGED <<client, callers, target_file>>

\* the DataNode's response kept under a name of its own, `response` left
\* bound to the NameNode's
copytolocal_getresponse_other_name(t) ==
  /\ th[t].pc = "data_response" /\ th[t].op = "copytolocal"
  /\ \/ \E r \in Few(DataResponses, FewDataResponses) :
          r.json = NotJson
          /\ Set(t, [th[t] EXCEPT !.pc = "data_finish", !.redirect_response = r,
                                  !.datanode_response = r])
     \/ Set(t, NameNodeHTTPClient_exit(Raise(th[t], "socket.error")))
  /\ UNCHANGED <<client, callers, target_file>>

copytolocal_getresponse(t) ==
  /\ th[t].pc = "data_response" /\ th[t].op = "copytolocal"
  /\ \/ \E r \in Few(DataResponses, FewDataResponses) :
          r.json = NotJson
          /\ Set(t, [th[t] EXCEPT !.pc = "data_finish", !.response = r,
                                  !.datanode_response = r])
     \/ Set(t, NameNodeHTTPClient_exit(Raise(th[t], "socket.error")))
  /\ UNCHANGED <<client, callers, target_file>>

copytolocal_write(t) ==
  /\ th[t].pc = "data_finish" /\ th[t].op = "copytolocal"
  /\ \/ \* open() fails
        /\ UNCHANGED target_file
        /\ Set(t, NameNodeHTTPClient_exit(Raise(th[t], "IOError")))
     \/ \* open() succeeds, response.read() fails
        /\ target_file' = <<>>
        /\ Set(t, NameNodeHTTPClient_exit(
                    Raise(Read(th[t], "response", th[t].dataclient), "socket.error")))
     \/ \* open() succeeds, write() fails
        /\ target_file' = <<>>
        /\ Set(t, NameNodeHTTPClient_exit(
                    Raise(Read(th[t], "response", th[t].dataclient), "IOError")))
     \/ /\ target_file' = th[t].response.bytes
        /\ LET c1 == Read(th[t], "response", th[t].dataclient)
               c2 == [c1 EXCEPT !.dataclient = close(@)]
           IN Set(t, NameNodeHTTPClient_exit(Return(c2, StatusOf(c2.response))))
  /\ UNCHANGED <<client, callers>>

(***************************************************************************)
(* zlib.decompressobj(ZLIB_WBITS).decompress(data, max_length), with       *)
(* ZLIB_WBITS = 16, the gzip framing.  The                                 *)
(* compressed format is stood for by a run-length code: GZ_MAGIC, then     *)
(* (count, byte) pairs.  No input gives no output; input that is not in    *)
(* the format raises zlib.error; max_length = 0 means no limit.            *)
(***************************************************************************)
RECURSIVE Inflate(_)
Inflate(pairs) ==
  IF Len(pairs) < 2 THEN <<>>
  ELSE [i \in 1..pairs[1] |-> pairs[2]] \o Inflate(SubSeq(pairs, 3, Len(pairs)))

decompress(data, max_length) ==
  IF data = <<>> THEN [kind |-> "bytes", bytes |-> <<>>]
  ELSE IF data[1] # GZ_MAGIC THEN [kind |-> "raised", exception |-> "zlib.error"]
  ELSE LET out == Inflate(Tail(data))
       IN [kind  |-> "bytes",
           bytes |-> IF max_length # 0 /\ Len(out) > max_length
                       THEN SubSeq(out, 1, max_length) ELSE out]

(***************************************************************************)
(* readfile, lines 140-159.  There is no else branch: without a redirect   *)
(* the method falls off its end and returns None.  The second              *)
(* _NameNodeHTTPClient is given url_path, not redirect_path.               *)
(***************************************************************************)
\* a readfile that keeps the endpoint of the redirect on the client object
readfile_branch_keeps_endpoint(t) ==
  /\ th[t].pc = "body" /\ th[t].op = "readfile"
  /\ LET c == IF ExpectsRedirect(th[t].response)
                THEN FollowRedirect(th[t], <<>>, "data_request")
                ELSE NameNodeHTTPClient_exit(Return(th[t], [kind |-> "None"]))
     IN /\ Set(t, c)
        /\ client' = IF c.pc = "data_request"
                       THEN [client EXCEPT !.namenode_host = c.redirect.host,
                                           !.namenode_port = c.redirect.port]
                       ELSE client
  /\ UNCHANGED <<callers, target_file>>

readfile_branch(t) ==
  /\ th[t].pc = "body" /\ th[t].op = "readfile"
  /\ Set(t, IF ExpectsRedirect(th[t].response)
              THEN FollowRedirect(th[t], <<>>, "data_request")
              ELSE NameNodeHTTPClient_exit(Return(th[t], [kind |-> "None"])))
  /\ UNCHANGED <<client, callers, target_file>>

readfile_data_url(url_path, redirect) == url_path

readfile_redirect_init(t) ==
  /\ th[t].pc = "data_request" /\ th[t].op = "readfile"
  /\ \E outcome \in RequestOutcomes :
       LET c == th[t]
           conn == request(HTTPConnection(c.redirect.host, c.redirect.port), "GET",
                           NameNodeHTTPClient_target(
                             readfile_data_url(c.url_path, c.redirect.path),
                             client.username),
                           outcome)
           c1 == Construct(c, "dataclient", conn)
       IN Set(t, IF outcome = "ok" THEN [c1 EXCEPT !.pc = "data_response"]
                 ELSE NameNodeHTTPClient_exit(Raise(c1, "socket.error")))
  /\ UNCHANGED <<client, callers, target_file>>

readfile_redirect_enter(t) ==
  /\ th[t].pc = "data_response" /\ th[t].op = "readfile"
  /\ \/ \E r \in Few(DataResponses, FewDataResponses) :
          r.json = NotJson
          /\ Set(t, [th[t] EXCEPT !.pc = "data_finish", !.redirect_response = r,
                                  !.datanode_response = r])
     \/ Set(t, NameNodeHTTPClient_exit(Raise(th[t], "socket.error")))
  /\ UNCHANGED <<client, callers, target_file>>

\* decompression whatever the name of the source
readfile_result_inflate_all(source_path, data, length) == decompress(data, length)

readfile_result(source_path, data, length) ==
  IF EndsWith(source_path, GZ_SUFFIX)
    THEN decompress(data, length)
    ELSE [kind |-> "bytes", bytes |-> data]

\* both with blocks are left: the DataNode connection is closed, then the
\* NameNode connection
readfile_body(t) ==
  /\ th[t].pc = "data_finish" /\ th[t].op = "readfile"
  /\ LET c1 == Read(th[t], "redirect_response", th[t].dataclient)
         c2 == Return(c1, readfile_result(c1.path, c1.redirect_response.bytes,
                                          c1.length))
     IN Set(t, NameNodeHTTPClient_exit([c2 EXCEPT !.dataclient = close(@)]))
  /\ UNCHANGED <<client, callers, target_file>>

\* the caller takes the result; the call's locals are discarded
CallExit(t) ==
  /\ th[t].pc = "done"
  /\ Set(t, IdleCall)
  /\ UNCHANGED <<client, callers, target_file>>

Next ==
  \E t \in Threads :
    \/ mkdir(t) \/ rmdir(t) \/ copyfromlocal(t) \/ copytolocal(t)
    \/ readfile(t) \/ listdir(t) \/ getfilestatus(t)
    \/ NameNodeHTTPClient_init(t) \/ NameNodeHTTPClient_enter(t)
    \/ mkdir_body(t) \/ rmdir_body(t) \/ listdir_body(t) \/ getfilestatus_body(t)
    \/ copyfromlocal_redirect(t) \/ copyfromlocal_put(t)
    \/ copyfromlocal_getresponse(t) \/ copyfromlocal_finish(t)
    \/ copytolocal_branch(t) \/ copytolocal_get(t)
    \/ copytolocal_getresponse(t) \/ copytolocal_write(t)
    \/ readfile_branch(t) \/ readfile_redirect_init(t)
    \/ readfile_redirect_enter(t) \/ readfile_body(t)
    \/ CallExit(t)

Spec == Init /\ [][Next]_vars

\* two threads call methods of the one client instance
InitTwoCallers ==
  /\ client = [namenode_host |-> NAMENODE_HOST, namenode_port |-> 50070,
               username |-> USERNAME]
  /\ callers = Threads
  /\ th = [t \in Threads |-> IdleCall]
  /\ target_file = OldContent

SpecTwoCallers == InitTwoCallers /\ [][Next]_vars

(***************************************************************************)
(* What the claims speak of.                                               *)
(***************************************************************************)
RedirectOps == {"copyfromlocal", "copytolocal", "readfile"}

MetadataOps == {"mkdir", "rmdir", "listdir", "getfilestatus"}

\* the grammar host[:port]: host in [A-Za-z0-9.-]+, port of 2 to 5 digits
IsHost(s) == s # <<>> /\ \A i \in 1..Len(s) : s[i] \in HostChars

IsPort(s) == Len(s) \in 2..5 /\ \A i \in 1..Len(s) : s[i] \in DigitChars

IsHostWithPort(n) ==
  \E i \in 1..Len(n) :
    n[i] = ":" /\ IsHost(SubSeq(n, 1, i - 1)) /\ IsPort(From(n, i + 1))

IsHostPort(n) == IsHost(n) \/ IsHostWithPort(n)

\* the host and the port a network location host:port names
NamedHost(n) == Before(n, Find(n, ":"))

NamedPort(n) == ParseInt(From(n, Find(n, ":") + 1))

\* sub occurs in s
Contains(s, sub) ==
  \E i \in 1..(Len(s) - Len(sub) + 1) : SubSeq(s, i, i + Len(sub) - 1) = sub

\* the request target the redirect asks for: the path of the Location (as
\* the parser hands it back, without the outer slashes), '?', and the
\* query as it stands in the Location
LocationTarget(loc) == StripSlashes(loc.path) \o <<"?">> \o loc.query

\* the call has sent its data-plane request and waits for the response
DataRequestSent(c) == c.op \in RedirectOps /\ c.pc = "data_response"

\* C1: in copyfromlocal, copytolocal and readfile, the data-plane request
\* goes to the host and port the Location names, its target is the
\* Location's path, '?' and the Location's query verbatim (plus
\* '&replication=<n>' in copyfromlocal), and it is never the target of the
\* control-plane request.
C1_DataRequestFollowsLocation ==
  \A t \in Threads :
    LET c == th[t]
        loc == c.namenode_response.location
    IN DataRequestSent(c) =>
         /\ Len(c.dataclient.requests) = 1
         /\ c.dataclient.requests[1].target =
              LocationTarget(loc) \o
                (IF c.op = "copyfromlocal"
                   THEN AMP_REPLICATION \o Str(c.replication) ELSE <<>>)
         /\ c.dataclient.requests[1].target # c.httpclient.requests[1].target
         /\ IsHostWithPort(loc.netloc) =>
              /\ c.dataclient.host = NamedHost(loc.netloc)
              /\ c.dataclient.port = NamedPort(loc.netloc)

\* the NameNode signalled an empty file: no body length, no Location
EmptyFileSignal(c) ==
  /\ c.namenode_response.received
  /\ ~c.namenode_response.has_length
  /\ ~c.namenode_response.has_location

\* C2: copytolocal, given a control-plane response with no body length and
\* no Location header, writes a zero-byte target file (unless the local
\* file cannot be opened) and opens no data-plane connection; copytolocal
\* and readfile construct a data-plane connection only when the
\* control-plane response carries a Location header.
C2_EmptyFileShortCircuit ==
  \A t \in Threads :
    LET c == th[t]
    IN /\ (c.op = "copytolocal" /\ c.pc = "done" /\ EmptyFileSignal(c)) =>
            /\ c.dataclient.state = "none"
            /\ c.opened = 1
            /\ \/ c.result.kind = "status" /\ target_file = <<>>
               \/ c.result.kind = "raised" /\ c.result.exception = "IOError"
       /\ (c.op \in {"copytolocal", "readfile"}
             /\ (c.dataclient.state # "none" \/ c.opened > 1)) =>
            c.namenode_response.has_location

C2_Witness ==
  \E t \in Threads :
    /\ th[t].op = "copytolocal" /\ th[t].pc = "done" /\ EmptyFileSignal(th[t])
    /\ th[t].namenode_response.other_headers
    /\ th[t].result.kind = "status"
    /\ target_file = <<>>
    /\ th[t].dataclient.state = "none"

\* C3: readfile, when it returns, returns a byte sequence, never an absent
\* value; on the empty-file signal it is the empty byte sequence.
C3_ReadfileReturnsBytes ==
  \A t \in Threads :
    LET c == th[t]
    IN (c.op = "readfile" /\ c.pc = "done" /\ c.result.kind # "raised") =>
         /\ c.result.kind = "bytes"
         /\ EmptyFileSignal(c) => c.result.bytes = <<>>

\* C4: when a call has exited, normally or with an exception, no
\* connection it opened is still open.
C4_ConnectionsClosedOnExit ==
  \A t \in Threads :
    th[t].pc = "done" =>
      /\ th[t].httpclient.state # "open"
      /\ th[t].dataclient.state # "open"

\* C5: a call constructs at most two connections and sends at most one
\* request on each; the first is to the configured NameNode; the second is
\* constructed only after the NameNode's response has been received; mkdir,
\* rmdir, listdir and getfilestatus construct exactly one and never a
\* data-plane one.
C5_AtMostTwoConnections ==
  \A t \in Threads :
    LET c == th[t]
    IN /\ c.opened <= 2
       /\ Len(c.httpclient.requests) <= 1
       /\ Len(c.dataclient.requests) <= 1
       /\ c.opened >= 1 =>
            /\ c.httpclient.state # "none"
            /\ c.httpclient.host = client.namenode_host
            /\ c.httpclient.port = client.namenode_port
       /\ (c.opened = 2 \/ c.dataclient.state # "none") =>
            /\ c.namenode_response.received
            /\ c.op \in RedirectOps
       /\ (c.op \in MetadataOps /\ c.pc = "done") =>
            c.opened = 1 /\ c.dataclient.state = "none"

C5_Witness ==
  \E t \in Threads :
    /\ th[t].pc = "done" /\ th[t].opened = 2
    /\ Len(th[t].httpclient.requests) = 1
    /\ Len(th[t].dataclient.requests) = 1
    /\ th[t].result.kind # "raised"

\* the call has sent its control-plane request
ControlRequestSent(c) == c.pc = "ctl_enter"

MethodOf(op) ==
  CASE op = "mkdir" -> "PUT"
    [] op = "rmdir" -> "DELETE"
    [] op = "copyfromlocal" -> "PUT"
    [] OTHER -> "GET"

\* "?op=OPEN"
OP_OPEN == <<"?", "o", "p", "=", "O", "P", "E", "N">>

BoolText(b) == IF b THEN STR_TRUE ELSE STR_FALSE

\* '?op=<OP>' and the query parameters listed for the operation
OperationQuery(c) ==
  CASE c.op = "mkdir" -> OP_MKDIRS
    [] c.op = "rmdir" -> OP_DELETE
    [] c.op = "copyfromlocal" -> OP_CREATE \o BoolText(c.overwrite)
    [] c.op = "copytolocal" -> OP_OPEN
    [] c.op = "readfile" ->
         OP_OPEN_OFFSET \o Str(c.offset) \o AMP_LENGTH \o Str(c.length)
           \o AMP_BUFFERSIZE \o Str(c.buffersize)
    [] c.op = "listdir" -> OP_LISTSTATUS
    [] c.op = "getfilestatus" -> OP_GETFILESTATUS

\* C6: the control-plane request of every operation uses the operation's
\* HTTP method and the target '/webhdfs/v1' + path + '?op=<OP>' with exactly
\* the operation's listed query parameters, then '&user.name=' + username.
C6_ControlRequestTarget ==
  \A t \in Threads :
    LET c == th[t]
    IN ControlRequestSent(c) =>
         c.httpclient.requests =
           <<[method |-> MethodOf(c.op),
              target |-> WEBHDFS_CONTEXT_ROOT \o c.path \o OperationQuery(c)
                           \o AMP_USER_NAME \o client.username]>>

\* "op=CREATE"
OP_EQ_CREATE == <<"o", "p", "=", "C", "R", "E", "A", "T", "E">>

\* "overwrite="
OVERWRITE_EQ == <<"o", "v", "e", "r", "w", "r", "i", "t", "e", "=">>

\* C7: the control-plane request of copyfromlocal carries op=CREATE and
\* overwrite=true when overwrite is true, overwrite=false when it is false,
\* and the target path in both cases.
C7_OverwriteFollowsArgument ==
  \A t \in Threads :
    LET c == th[t]
    IN (c.op = "copyfromlocal" /\ ControlRequestSent(c)) =>
         LET target == c.httpclient.requests[1].target
         IN /\ Contains(target, OP_EQ_CREATE)
            /\ Contains(target, OVERWRITE_EQ \o BoolText(c.overwrite))
            /\ ~Contains(target, OVERWRITE_EQ \o BoolText(~c.overwrite))
            /\ Contains(target, c.path)

\* "replication="
REPLICATION_EQ == <<"r", "e", "p", "l", "i", "c", "a", "t", "i", "o", "n", "=">>

\* C8: for every replication n, the data-plane PUT of copyfromlocal has the
\* Location's query followed by '&replication=<n>' (n in decimal), and the
\* request that carries it goes to the DataNode the Location names; the
\* request to the NameNode carries no replication parameter.
C8_ReplicationAppended ==
  \A t \in Threads :
    LET c == th[t]
        loc == c.namenode_response.location
    IN /\ (c.op = "copyfromlocal" /\ DataRequestSent(c)) =>
            /\ c.dataclient.requests =
                 <<[method |-> "PUT",
                    target |-> LocationTarget(loc) \o AMP_REPLICATION
                                 \o Str(c.replication)]>>
            /\ ParseInt(Str(c.replication)) = c.replication
            /\ IsHostWithPort(loc.netloc) =>
                 /\ c.dataclient.host = NamedHost(loc.netloc)
                 /\ c.dataclient.port = NamedPort(loc.netloc)
       /\ \A i \in 1..Len(c.httpclient.requests) :
            ~Contains(c.httpclient.requests[i].target, REPLICATION_EQ)

C8_Witness ==
  \E t \in Threads :
    /\ th[t].op = "copyfromlocal" /\ DataRequestSent(th[t])
    /\ th[t].replication = MaxReplication
    /\ th[t].namenode_response.location.query = LOCQUERY_A
    /\ th[t].namenode_response.location.netloc = HOST_D1X \o <<":">> \o PortDigits(5)
    /\ th[t].dataclient.port = 56789

\* the call has parsed (or failed to parse) the Location of the
\* control-plane response
ParsedLocation(c) ==
  /\ c.op \in RedirectOps
  /\ c.namenode_response.has_location
  /\ c.op = "copyfromlocal" \/ c.namenode_response.has_length
  /\ c.pc \in {"data_request", "data_response", "data_finish", "done"}

ParseFailed(c) ==
  /\ c.pc = "done" /\ c.result.kind = "raised"
  /\ c.result.exception \in {"TypeError", InvalidHostPort}

\* C9: for every network location of the form host[:port], parse_url
\* succeeds and returns the host and the port it names; a Location without
\* a port is parsed successfully.
C9_ValidNetlocParsed ==
  \A t \in Threads :
    LET c == th[t]
        netloc == c.namenode_response.location.netloc
    IN (ParsedLocation(c) /\ IsHostPort(netloc)) =>
         /\ ~ParseFailed(c)
         /\ c.redirect.host = NamedHost(netloc)
         /\ IsHostWithPort(netloc) => c.redirect.port = NamedPort(netloc)

\* C10: for every network location that is not entirely of the form
\* host[:port], parse_url fails with the malformed-redirect error and the
\* call constructs no data-plane connection.
C10_MalformedNetlocRejected ==
  \A t \in Threads :
    LET c == th[t]
        netloc == c.namenode_response.location.netloc
    IN (ParsedLocation(c) /\ ~IsHostPort(netloc)) =>
         /\ c.pc = "done"
         /\ c.result.kind = "raised"
         /\ c.result.exception = InvalidHostPort
         /\ c.dataclient.state = "none"
         /\ c.opened = 1

\* the response was received and carries a non-success status
ErrorStatus(response) == response.received /\ response.status >= 400

\* the call ended with an exception that is not a failure of the
\* transport or of the local file, nor a body that is no JSON at all
RaisedOverResponse(c) ==
  /\ c.pc = "done" /\ c.result.kind = "raised"
  /\ c.result.exception \notin {"socket.error", "IOError", "ValueError"}

\* C11: in every operation, a non-success HTTP status from the NameNode or
\* from the DataNode reaches the caller as returned data (the parsed body
\* or the status code) and never as a raised exception; copyfromlocal,
\* copytolocal and readfile return normally when the NameNode answers with
\* an error status and no Location header.
C11_ErrorStatusReturnedAsData ==
  \A t \in Threads :
    LET c == th[t]
    IN /\ (c.pc = "done" /\ (ErrorStatus(c.namenode_response)
                               \/ ErrorStatus(c.datanode_response))) =>
            ~RaisedOverResponse(c)
       /\ (c.pc = "done" /\ c.op \in RedirectOps
             /\ ErrorStatus(c.namenode_response)
             /\ ~c.namenode_response.has_location) =>
            \/ c.result.kind \in {"json", "status", "bytes", "None"}
            \/ c.result.kind = "raised" /\ c.result.exception = "IOError"

\* C12: for a source path that ends in '.gz', readfile returns at most
\* `length` bytes of decompressed output, for every length, 0 included.
C12_DecompressedAtMostLength ==
  \A t \in Threads :
    LET c == th[t]
    IN (c.op = "readfile" /\ c.pc = "done" /\ c.result.kind = "bytes"
          /\ EndsWith(c.path, GZ_SUFFIX)) =>
         Len(c.result.bytes) <= c.length

\* readfile has received the DataNode's response and has ended
ReadfileEnded(c) ==
  c.op = "readfile" /\ c.pc = "done" /\ c.datanode_response.received

\* C13: for a source path that does not end in '.gz', readfile returns
\* exactly the bytes of the data-plane response body, unmodified and
\* untruncated, whatever the length argument; the body is decompressed if
\* and only if the source path ends in '.gz'.
C13_PlainBodyReturnedVerbatim ==
  \A t \in Threads :
    LET c == th[t]
        body == c.datanode_response.bytes
    IN ReadfileEnded(c) =>
         IF EndsWith(c.path, GZ_SUFFIX)
           THEN /\ c.result = decompress(body, c.length)
                /\ body # <<>> => c.result # [kind |-> "bytes", bytes |-> body]
           ELSE c.result = [kind |-> "bytes", bytes |-> body]

C13_Witness ==
  \E t \in Threads :
    /\ ReadfileEnded(th[t])
    /\ th[t].path = PATH_A /\ th[t].length = 1
    /\ th[t].datanode_response.bytes = <<GZ_MAGIC, 3, 5>>
    /\ th[t].result = [kind |-> "bytes", bytes |-> <<GZ_MAGIC, 3, 5>>]

\* listdir has ended on a response whose body is a FileStatuses document
ListdirEnded(c) ==
  /\ c.op = "listdir" /\ c.pc = "done"
  /\ c.namenode_response.received
  /\ c.namenode_response.json.wellformed
  /\ "FileStatuses" \in DOMAIN c.namenode_response.json.doc

\* C14: listdir returns exactly one (pathSuffix, length, type) triple per
\* entry of the response's FileStatuses.FileStatus array, in the order of
\* the array, none dropped, duplicated or reordered, and nothing of the
\* entries' other fields.
C14_ListdirOneTriplePerEntry ==
  \A t \in Threads :
    LET c == th[t]
    IN ListdirEnded(c) =>
         LET entries == c.namenode_response.json.doc.FileStatuses.FileStatus
         IN /\ c.result.kind = "list"
            /\ Len(c.result.files) = Len(entries)
            /\ \A i \in 1..Len(entries) :
                 c.result.files[i] =
                   <<entries[i].pathSuffix, entries[i].length, entries[i].type>>

C14_Witness ==
  \E t \in Threads :
    /\ ListdirEnded(th[t])
    /\ th[t].result.kind = "list"
    /\ th[t].result.files =
         <<<<"sub", 0, "DIRECTORY">>, <<"a.txt", 10, "FILE">>>>

\* the connections of a call are the one to the NameNode the client was
\* constructed with, carrying the call's own request, and the one to the
\* DataNode of the redirect the call itself received
OwnConnections(c) ==
  /\ c.httpclient.state # "none" =>
       /\ c.httpclient.host = NAMENODE_HOST
       /\ c.httpclient.port = 50070
  /\ \A i \in 1..Len(c.httpclient.requests) :
       c.httpclient.requests[i] =
         [method |-> c.http_method,
          target |-> c.url_path \o AMP_USER_NAME \o USERNAME]
  /\ c.dataclient.state # "none" =>
       /\ c.namenode_response.has_location
       /\ c.dataclient.host = NamedHost(c.namenode_response.location.netloc)
       /\ c.dataclient.port = NamedPort(c.namenode_response.location.netloc)
  /\ \A i \in 1..Len(c.dataclient.requests) :
       c.dataclient.requests[i].target \in
         {LocationTarget(c.namenode_response.location),
          LocationTarget(c.namenode_response.location)
            \o AMP_REPLICATION \o Str(c.replication),
          c.url_path \o AMP_USER_NAME \o USERNAME}

\* the value a call returns is made of the responses the call itself
\* received
OwnResult(c) ==
  (c.pc = "done" /\ c.result.kind # "raised") =>
    CASE c.op \in {"mkdir", "rmdir"} ->
           c.result = [kind |-> "json", doc |-> c.namenode_response.json.doc]
      [] c.op = "listdir" ->
           /\ c.result.kind = "list"
           /\ Len(c.result.files) =
                Len(c.namenode_response.json.doc.FileStatuses.FileStatus)
      [] c.op = "getfilestatus" ->
           c.result.kind = "None"
           \/ c.result = [kind |-> "json",
                          doc |-> c.namenode_response.json.doc.FileStatus]
      [] c.op = "copyfromlocal" ->
           c.result = [kind |-> "json", doc |-> c.datanode_response.json.doc]
      [] c.op = "copytolocal" ->
           /\ c.result.kind = "status"
           /\ c.result.status = IF c.datanode_response.received
                                  THEN c.datanode_response.status
                                  ELSE c.namenode_response.status
      [] c.op = "readfile" ->
           IF c.datanode_response.received
             THEN c.result = readfile_result(c.path, c.datanode_response.bytes,
                                             c.length)
             ELSE c.result.kind = "None"

\* a step leaves the client's configuration alone and belongs to one call
OneCallStep ==
  /\ client' = client
  /\ \A t, u \in Threads : (t # u /\ th'[t] # th[t]) => th'[u] = th[u]

\* C15: no operation, successful or failing, modifies the client's
\* NameNode host, port or username, and each call uses only the
\* connections it opened itself; so, in every interleaving of two calls on
\* one client, the requests each call sends and the value it returns are
\* those of the call run on its own.
C15_CallsDoNotInterfere ==
  /\ [](\A t \in Threads : OwnConnections(th[t]) /\ OwnResult(th[t]))
  /\ [][OneCallStep]_vars

\* two calls in flight at once, one of them past its data-plane request
C15_Witness ==
  /\ callers = Threads
  /\ th["t1"].op = "copytolocal" /\ th["t1"].pc = "data_finish"
  /\ th["t2"].op = "readfile" /\ th["t2"].pc = "done"
  /\ th["t2"].result.kind = "bytes"
  /\ th["t1"].path # th["t2"].path

\* copytolocal has returned to its caller
CopytolocalReturned(c) ==
  c.op = "copytolocal" /\ c.pc = "done" /\ c.result.kind # "raised"

\* C16: what copytolocal returns is always an HTTP status code: the status
\* of the data-plane response when the redirect was followed, the status of
\* the control-plane response when the empty-file short-circuit was taken.
C16_CopytolocalReturnsStatus ==
  \A t \in Threads :
    LET c == th[t]
    IN CopytolocalReturned(c) =>
         /\ c.result.kind = "status"
         /\ IF ExpectsRedirect(c.namenode_response)
              THEN /\ c.datanode_response.received
                   /\ c.result.status = c.datanode_response.status
              ELSE /\ ~c.datanode_response.received
                   /\ c.opened = 1
                   /\ c.result.status = c.namenode_response.status

\* the redirect was followed, and the two statuses differ
C16_Witness ==
  \E t \in Threads :
    /\ CopytolocalReturned(th[t])
    /\ th[t].namenode_response.status = 307
    /\ th[t].datanode_response.received
    /\ th[t].datanode_response.status = 500
    /\ th[t].result = [kind |-> "status", status |-> 500]

\* copytolocal is at the point where it opens the target file: it holds
\* the DataNode's response, or it takes the empty-file short-circuit
AtFileWrite(c) ==
  /\ c.op = "copytolocal"
  /\ \/ c.pc = "data_finish" /\ c.datanode_response.received
     \/ c.pc = "body" /\ ~ExpectsRedirect(c.response)

\* the call ended, before it held the DataNode's response, on a missing or
\* malformed redirect or on a failure of one of its connections
FailedEarlier(c) ==
  /\ c.pc = "done" /\ c.result.kind = "raised"
  /\ ~c.datanode_response.received
  /\ c.result.exception \in {"socket.error", "KeyError", "TypeError", InvalidHostPort}

\* C17: copytolocal creates or truncates the local target file only once
\* the data-plane response has been received (or on the empty-file
\* short-circuit); a call that fails earlier, on the redirect or on either
\* connection, leaves the file as it was.  No step but the last step of a
\* copytolocal call changes the file, and a last step that fails in one of
\* these ways does not change it.  (Once the response is held, the file is
\* opened before the body is read: a failure of that read comes after.)
C17_FileWrittenOnlyAfterResponse ==
  [][target_file' # target_file =>
       \E t \in Threads : /\ AtFileWrite(th[t])
                          /\ th'[t].pc = "done"
                          /\ ~FailedEarlier(th'[t])]_vars

\* the connection to the DataNode failed and the file is as it was
C17_Witness ==
  \E t \in Threads :
    /\ th[t].op = "copytolocal" /\ FailedEarlier(th[t])
    /\ th[t].result.exception = "socket.error"
    /\ th[t].dataclient.state # "none"
    /\ target_file = OldContent

\* C18: in every operation the body of a response is read only while the
\* connection it arrived on is still open; no operation closes a
\* connection and then reads the body of the response received on it.
C18_BodyReadWhileOpen ==
  \A t \in Threads :
    \A r \in th[t].body_reads : r.connection = "open"

====
